---- MODULE Spec2Model ----
(***************************************************************************)
(* erdtree, src/render/tree/node/mod.rs: the Node of the rendered tree.    *)
(*                                                                         *)
(* A Node is built once from a directory entry and a rendering Context     *)
(* (TryFrom<(DirEntry, &Context)>), may get its size overwritten           *)
(* (set_file_size), is read through accessors and is rendered by display.  *)
(*                                                                         *)
(* Text is modelled as a sequence of pieces; a piece is a text with the    *)
(* colour it was painted with (<<>> = no ANSI escape around it).  An       *)
(* Option is a sequence of length at most one.                             *)
(***************************************************************************)
EXTENDS Naturals, Sequences, FiniteSets

VARIABLES
    node,      \* Option<Node>: the constructed Node, None before/without one
    result,    \* "none" | "ok" | "err": what try_from returned
    ctx,       \* Option<Context>: the context try_from was called with
    io,        \* Option: what the calls made by try_from answered
    sized,     \* whether set_file_size has been called on the Node
    last,      \* the last call made on the Node and what it returned
    iconArgs,  \* Option: the arguments of a compute_icon call
    iconRes    \* Option: what that compute_icon call returned

vars == <<node, result, ctx, io, sized, last, iconArgs, iconRes>>

None == <<>>
Some(x) == <<x>>

\* ------------------------------------------------------------------ text

Plain(t) == [txt |-> t, col |-> <<>>]
Paint(c, t) == [txt |-> t, col |-> c]
IsPlain(p) == p.col = <<>>
AllPlain(s) == \A i \in 1..Len(s) : IsPlain(s[i])

\* ------------------------------------------------------- directory entries

FileTypes == {"file", "dir", "symlink"}

\* Path::extension of the names the model walks over
PathExtension(name) ==
    CASE name = "a.txt" -> Some("txt")
      [] name = "t.rs" -> Some("rs")
      [] name = "u.txt" -> Some("txt")
      [] OTHER -> None

\* Path::file_name: a path ending in ".." has none
PathFileName(path) == IF path = ".." THEN None ELSE Some(path)

\* OsStr::to_string_lossy / Node::file_name_lossy: invalid sequences become U+FFFD
ToStringLossy(name) == IF name = "b\\xFF" THEN <<"b\\uFFFD">> ELSE <<name>>

EntryNames == {"a.txt", "Makefile", "b\\xFF"}

\* ignore::DirEntry as the Node reads it: the cached file type (None for
\* stdin), whether the path is a symbolic link, and the file name.  A file
\* type of symlink is only reported for an entry whose path is one.
Entries ==
    { e \in [file_type : {None} \cup {Some(t) : t \in FileTypes},
             path_is_symlink : BOOLEAN,
             file_name : EntryNames] :
        /\ (e.file_type = Some("symlink") => e.path_is_symlink)
        /\ (e.file_type = None => ~e.path_is_symlink) }

\* the paths a link of the model may point to
Targets == {"t.rs", ".."}

\* ------------------------------------------------------------------ style

Styles == {None, Some([foreground |-> None]), Some([foreground |-> Some("blue")])}

HasForeground(style) == style # None /\ style[1].foreground # None

Bold(style) == <<"bold", style[1].foreground[1]>>

\* ------------------------------------------------------------ compute_icon

\* the icon tables and the terminal probe, as compute_icon sees them
IconEnvs ==
    [tty : BOOLEAN,
     typeIcons : {{}, {"dir", "symlink"}},
     extIcons : {{}, {"rs"}, {"rs", "txt"}},
     nameIcons : {{}, {"Makefile"}}]

icon_from_file_type(env, ft) == IF ft \in env.typeIcons THEN Some(<<"type", ft>>) ELSE None
icon_from_ext(env, ext) ==
    IF ext \in env.extIcons THEN Some([code |-> <<"code", ext>>, glyph |-> <<"ext", ext>>])
    ELSE None
icon_from_file_name(env, name) == IF name \in env.nameIcons THEN Some(<<"name", name>>) ELSE None
get_default_icon == [code |-> <<"code", "default">>, glyph |-> <<"default">>]

paint_icon(style, no_color, env, icon) ==
    IF HasForeground(style) /\ env.tty /\ ~no_color
    THEN Some(Paint(Bold(style), icon))
    ELSE Some(Plain(icon))

\* icon_ext with a bug: the link target is never looked at
icon_ext_own(entry, link_target) == PathExtension(entry.file_name)

\* the extension the extension lookup is made with
icon_ext(entry, link_target) ==
    IF link_target # None /\ entry.path_is_symlink
    THEN PathExtension(link_target[1])
    ELSE PathExtension(entry.file_name)

ext_icon(entry, link_target, no_color, env) ==
    LET ext == icon_ext(entry, link_target)
        attrs == IF ext = None THEN None ELSE icon_from_ext(env, ext[1])
    IN IF attrs = None THEN None
       ELSE IF no_color \/ ~env.tty THEN Some(Plain(attrs[1].glyph))
       ELSE Some(Paint(attrs[1].code, attrs[1].glyph))

\* default_icon with a bug: the fallback is coloured whatever no_color is
default_icon_coloured(no_color) ==
    Some(Paint(get_default_icon.code, get_default_icon.glyph))

default_icon(no_color) ==
    IF no_color THEN Some(Plain(get_default_icon.glyph))
    ELSE Some(Paint(get_default_icon.code, get_default_icon.glyph))

\* compute_icon with a bug: the file-name lookup is tried before the extension
compute_icon_name_first(entry, link_target, style, no_color, env) ==
    LET tyIcon == IF entry.file_type = None THEN None
                  ELSE icon_from_file_type(env, entry.file_type[1])
        extIcon == ext_icon(entry, link_target, no_color, env)
        nameIcon == icon_from_file_name(env, entry.file_name)
    IN IF tyIcon # None THEN paint_icon(style, no_color, env, tyIcon[1])
       ELSE IF nameIcon # None THEN paint_icon(style, no_color, env, nameIcon[1])
       ELSE IF extIcon # None THEN extIcon
       ELSE default_icon(no_color)

compute_icon(entry, link_target, style, no_color, env) ==
    LET tyIcon == IF entry.file_type = None THEN None
                  ELSE icon_from_file_type(env, entry.file_type[1])
        extIcon == ext_icon(entry, link_target, no_color, env)
        nameIcon == icon_from_file_name(env, entry.file_name)
    IN IF tyIcon # None THEN paint_icon(style, no_color, env, tyIcon[1])
       ELSE IF extIcon # None THEN extIcon
       ELSE IF nameIcon # None THEN paint_icon(style, no_color, env, nameIcon[1])
       ELSE default_icon(no_color)

\* ---------------------------------------------------------------- context

\* render::context::Context, the fields this file reads
Units == {"bin", "si"}
Scales == {0, 2}
Contexts ==
    [no_color : BOOLEAN, icons : BOOLEAN, long : BOOLEAN,
     suppress_size : BOOLEAN, disk_usage : {"logical", "physical"},
     unit : Units, scale : Scales]

\* the contexts the life of a Node is followed under: one unit and one scale
LifeContexts == {c \in Contexts : c.unit = "bin" /\ c.scale = 2}

\* FileSize::logical / FileSize::physical / an aggregate handed to
\* set_file_size: where the byte count comes from, and the unit and scale
FileSize(bytes, unit, scale) == [bytes |-> bytes, unit |-> unit, scale |-> scale]

\* ------------------------------------------------- what the system answers

\* fs::Metadata as the Node reads it: the symbolic notation of its permission
\* bits (None when they cannot be decoded) and whether an inode can be
\* extracted from it
Permissions == {None, Some(<<"r", "w", "-">>)}
Metadatas == [mode : Permissions, has_inode : BOOLEAN]

\* read_link on the entry: asked only of a symbolic link
LinkReads(e) == IF e.path_is_symlink THEN {None} \cup {Some(t) : t \in Targets} ELSE {None}

\* the answers of the calls try_from makes; a call that is not made has the
\* one answer "na" (None for the icon tables)
MetadataAnswers == {None} \cup {Some(m) : m \in Metadatas}
StyleAnswers(md) == IF md = None THEN {"na"} ELSE {"unavailable", "no_rule", "rule"}
PhysicalAnswers(e, c, md) ==
    IF md # None /\ e.file_type = Some("file") /\ ~c.suppress_size
       /\ c.disk_usage = "physical"
    THEN {"some", "none"} ELSE {"na"}
XattrAnswers(c, md) == IF md # None /\ c.long THEN {"none", "empty", "some"} ELSE {"na"}
IconAnswers(c, md) == IF md # None /\ c.icons THEN {Some(env) : env \in IconEnvs} ELSE {None}

Answer(link_read, md, style, physical, xattrs, icons) ==
    [link_read |-> link_read, metadata |-> md, style |-> style,
     physical |-> physical, xattrs |-> xattrs, icons |-> icons]

\* ------------------------------------------------------------ construction

\* crate::fs::symlink_target: the target of a symbolic link that can be read
symlink_target(e, link_read) == IF e.path_is_symlink THEN link_read ELSE None

\* metadata_fatal with a bug: a failed inode extraction is propagated too
metadata_or_inode_fatal(o) == o.metadata = None \/ ~o.metadata[1].has_inode

\* dir_entry.metadata()?: the one fatal step
metadata_fatal(o) == o.metadata = None

resolve_style(o) ==
    IF o.style = "unavailable" THEN None
    ELSE IF o.style = "rule" THEN Some([foreground |-> Some("blue")])
    ELSE Some([foreground |-> None])

\* resolve_file_size with a bug: size suppression is not looked at
resolve_file_size_unsuppressed(e, c, o) ==
    IF e.file_type = Some("file")
    THEN IF c.disk_usage = "logical" THEN Some(FileSize("logical", c.unit, c.scale))
         ELSE IF o.physical = "some" THEN Some(FileSize("physical", c.unit, c.scale))
         ELSE None
    ELSE None

resolve_file_size(e, c, o) ==
    IF e.file_type = Some("file") /\ ~c.suppress_size
    THEN IF c.disk_usage = "logical" THEN Some(FileSize("logical", c.unit, c.scale))
         ELSE IF o.physical = "some" THEN Some(FileSize("physical", c.unit, c.scale))
         ELSE None
    ELSE None

resolve_icon(e, c, o, link_target, style) ==
    IF c.icons THEN compute_icon(e, link_target, style, c.no_color, o.icons[1])
    ELSE None

resolve_inode(md) == IF md.has_inode THEN Some("inode") ELSE None

resolve_xattrs(c, o) ==
    IF c.long
    THEN IF o.xattrs = "some" THEN Some(1)
         ELSE IF o.xattrs = "empty" THEN Some(0)
         ELSE None
    ELSE None

Node_new(dir_entry, metadata, file_size, style, icon, symlink_tgt, inode, xattrs) ==
    [dir_entry |-> dir_entry, metadata |-> metadata, file_size |-> file_size,
     style |-> style, icon |-> icon, symlink_target |-> symlink_tgt,
     inode |-> inode, xattrs |-> xattrs]

try_from(e, c, o) ==
    LET link_target == symlink_target(e, o.link_read)
    IN IF metadata_fatal(o) THEN None
       ELSE LET metadata == o.metadata[1]
                style == resolve_style(o)
            IN Some(Node_new(e, metadata, resolve_file_size(e, c, o), style,
                             resolve_icon(e, c, o, link_target, style), link_target,
                             resolve_inode(metadata), resolve_xattrs(c, o)))

Call(op, arg, ret) == [op |-> op, arg |-> arg, ret |-> ret]

TryFrom(e, c, o) ==
    /\ node' = try_from(e, c, o)
    /\ result' = IF try_from(e, c, o) = None THEN "err" ELSE "ok"
    /\ ctx' = Some(c)
    /\ io' = Some([link_read |-> o.link_read, metadata_ok |-> o.metadata # None,
                   style |-> o.style, physical |-> o.physical, xattrs |-> o.xattrs,
                   inode_ok |-> o.metadata # None /\ o.metadata[1].has_inode])
    /\ last' = Call("try_from", <<>>, <<>>)
    /\ UNCHANGED <<sized, iconArgs, iconRes>>

ConstructWith(contexts) ==
    /\ result = "none"
    /\ \E e \in Entries, c \in contexts :
         \E link_read \in LinkReads(e), md \in MetadataAnswers :
           \E style \in StyleAnswers(md), physical \in PhysicalAnswers(e, c, md),
              xattrs \in XattrAnswers(c, md), icons \in IconAnswers(c, md) :
             TryFrom(e, c, Answer(link_read, md, style, physical, xattrs, icons))

Construct == ConstructWith(LifeContexts)
ConstructAny == ConstructWith(Contexts)

\* --------------------------------------------------------------- accessors

N == node[1]

file_name_lossy(n) == ToStringLossy(n.dir_entry.file_name)
is_symlink(n) == n.symlink_target # None
symlink_target_path(n) == n.symlink_target
symlink_target_file_name(n) ==
    IF symlink_target_path(n) = None THEN None
    ELSE PathFileName(symlink_target_path(n)[1])
file_size(n) == n.file_size
icon(n) == n.icon
inode(n) == n.inode
\* Ok(FileMode) or Err: None stands for the error
mode(n) == n.metadata.mode
has_xattrs(n) == (IF n.xattrs = None THEN 0 ELSE n.xattrs[1]) > 0

\* set_file_size with a bug: the icon is reset with the size
set_file_size_resets_icon(n, size) == [n EXCEPT !.file_size = Some(size), !.icon = None]

\* set_file_size with a bug: the link target is dropped with the old size
set_file_size_drops_link(n, size) ==
    [n EXCEPT !.file_size = Some(size), !.symlink_target = None]

set_file_size(n, size) == [n EXCEPT !.file_size = Some(size)]

\* ----------------------------------------------------------------- display

stylize(n, entity) ==
    IF HasForeground(n.style) THEN Paint(Bold(n.style), entity) ELSE Plain(entity)

stylize_link_name(n) ==
    LET name == symlink_target_file_name(n)
    IN IF name = None THEN None
       ELSE Some(<<stylize(n, file_name_lossy(n)), Plain(<<" ">>),
                   Paint(<<"red">>, <<"\\u2192 ">> \o ToStringLossy(name[1]))>>)

display_file_name(n, no_color) ==
    IF no_color THEN <<Plain(ToStringLossy(n.dir_entry.file_name))>>
    ELSE IF stylize_link_name(n) # None THEN stylize_link_name(n)[1]
    ELSE <<stylize(n, file_name_lossy(n))>>

\* get_permissions_theme(): the characters the theme has a colour for
Themes == {{"r", "w", "-", "@", " "}, {"r", " "}}
ThemeResults == {None} \cup {Some(t) : t \in Themes}

RECURSIVE style_permissions(_, _)
style_permissions(perm_str, theme) ==
    IF perm_str = <<>> THEN <<>>
    ELSE (IF Head(perm_str) \in theme
          THEN <<Paint(<<"theme", Head(perm_str)>>, <<Head(perm_str)>>)>>
          ELSE <<>>) \o style_permissions(Tail(perm_str), theme)

\* the mode string before styling: the symbolic notation and the marker
mode_marker(n) == IF has_xattrs(n) THEN "@" ELSE " "
mode_string(n) == Append(mode(n)[1], mode_marker(n))

RawText(s) == [i \in 1..Len(s) |-> Plain(<<s[i]>>)]

\* display_mode with the marker appended after the styling instead of before it
display_mode_marker_last(n, no_color, theme) ==
    IF no_color THEN RawText(mode_string(n))
    ELSE Append(style_permissions(mode(n)[1], theme), Plain(<<mode_marker(n)>>))

\* the permission block of a long-format line, without its padding
display_mode(n, no_color, theme) ==
    IF no_color THEN RawText(mode_string(n))
    ELSE style_permissions(mode_string(n), theme)

\* the line display writes, segment by segment; None when display panics
\* before writing (an unwrap of an Err)
display(n, prefix, dc, th) ==
    LET size == IF file_size(n) = None THEN <<"empty_string">>
                ELSE <<"format", file_size(n)[1]>>
        ic == IF icon(n) = None THEN <<>> ELSE <<icon(n)[1]>>
        file_name == display_file_name(n, dc.no_color)
    IN IF dc.long
       THEN IF mode(n) = None THEN None
            ELSE IF ~dc.no_color /\ th = None THEN None
            ELSE Some([long |-> TRUE,
                       mode |-> display_mode(n, dc.no_color, IF th = None THEN {} ELSE th[1]),
                       mode_pad |-> 2, size |-> size, prefix |-> prefix,
                       icon |-> ic, file_name |-> file_name])
       ELSE Some([long |-> FALSE, mode |-> <<>>, mode_pad |-> 0, size |-> size,
                  prefix |-> prefix, icon |-> ic, file_name |-> file_name])

\* ---------------------------------------------------------------- actions

SetSizes == {FileSize("total1", "bin", 2), FileSize("total2", "bin", 2)}
Prefixes == {"|- "}
DisplayContexts == [no_color : BOOLEAN, long : BOOLEAN]

SetFileSize(size) ==
    /\ result = "ok"
    /\ node' = Some(set_file_size(N, size))
    /\ sized' = TRUE
    /\ last' = Call("set_file_size", Some(size), <<>>)
    /\ UNCHANGED <<result, ctx, io, iconArgs, iconRes>>

\* display reads the no_color and long flags of the context it is given and
\* the permission theme only when it styles a long-format line
Display(prefix, dc, th) ==
    /\ result = "ok"
    /\ (th = None \/ (dc.long /\ ~dc.no_color /\ mode(N) # None))
    /\ (dc.long /\ ~dc.no_color /\ mode(N) # None => th \in ThemeResults)
    /\ last' = Call("display", [prefix |-> prefix, dc |-> dc, theme |-> th],
                    display(N, prefix, dc, th))
    /\ UNCHANGED <<node, result, ctx, io, sized, iconArgs, iconRes>>

\* the read accessors, called together
accessors(n) ==
    [is_symlink |-> is_symlink(n), symlink_target_path |-> symlink_target_path(n),
     file_size |-> file_size(n), icon |-> icon(n), inode |-> inode(n), mode |-> mode(n)]

Read ==
    /\ result = "ok"
    /\ last' = Call("read", <<>>, accessors(N))
    /\ UNCHANGED <<node, result, ctx, io, sized, iconArgs, iconRes>>

Init ==
    /\ node = None
    /\ result = "none"
    /\ ctx = None
    /\ io = None
    /\ sized = FALSE
    /\ last = Call("none", <<>>, <<>>)
    /\ iconArgs = None
    /\ iconRes = None

Next ==
    \/ Construct
    \/ \E size \in SetSizes : SetFileSize(size)
    \/ \E prefix \in Prefixes, dc \in DisplayContexts, th \in ThemeResults :
          Display(prefix, dc, th)
    \/ Read

Spec == Init /\ [][Next]_vars

\* construction alone, under every context
NextNew == ConstructAny

SpecNew == Init /\ [][NextNew]_vars

\* ------------------------------------------- compute_icon on its own inputs

\* the arguments try_from can call compute_icon with
IconArgs ==
    { a \in [entry : Entries, link_target : {None} \cup {Some(t) : t \in Targets},
             style : Styles, no_color : BOOLEAN, env : IconEnvs] :
        a.link_target \in {symlink_target(a.entry, r) : r \in LinkReads(a.entry)} }

InitIcon ==
    /\ node = None
    /\ result = "none"
    /\ ctx = None
    /\ io = None
    /\ sized = FALSE
    /\ last = Call("none", <<>>, <<>>)
    /\ iconArgs \in {Some(a) : a \in IconArgs}
    /\ iconRes = None

ComputeIcon ==
    /\ iconRes = None
    /\ iconRes' = Some(compute_icon(iconArgs[1].entry, iconArgs[1].link_target,
                                    iconArgs[1].style, iconArgs[1].no_color,
                                    iconArgs[1].env))
    /\ UNCHANGED <<node, result, ctx, io, sized, last, iconArgs>>

NextIcon == ComputeIcon

SpecIcon == InitIcon /\ [][NextIcon]_vars

\* ================================================================ claims

IO == io[1]
CTX == ctx[1]
Constructed == result = "ok" /\ node # None

\* C1: construction fails if and only if the metadata fetch fails; on failure
\* no Node is produced, and every other resolver's failure leaves a Node with
\* the corresponding field absent or defaulted.
C1_FailsIffMetadataFails ==
    result # "none" =>
        /\ (result = "err") <=> ~IO.metadata_ok
        /\ (result = "err") => node = None
        /\ (result = "ok") =>
              /\ node # None
              /\ (IO.link_read = None => N.symlink_target = None)
              /\ (IO.style = "unavailable" => N.style = None)
              /\ (IO.style = "no_rule" => N.style = Some([foreground |-> None]))
              /\ (IO.physical = "none" /\ ~sized => N.file_size = None)
              /\ (~IO.inode_ok => N.inode = None)
              /\ (IO.xattrs = "none" => N.xattrs = None)
              /\ (IO.xattrs = "empty" => ~has_xattrs(N))

\* a Node built although every resolver but the metadata fetch failed
C1_Witness ==
    /\ Constructed
    /\ N.dir_entry.path_is_symlink /\ IO.link_read = None
    /\ IO.style = "unavailable" /\ IO.physical = "none"
    /\ ~IO.inode_ok /\ IO.xattrs = "none"
    /\ CTX.icons /\ N.icon # None
    /\ N.symlink_target = None /\ N.style = None /\ N.file_size = None
    /\ N.inode = None /\ N.xattrs = None

IA == iconArgs[1]
IR == iconRes[1]
TypeLookupMatches ==
    IA.entry.file_type # None /\ IA.entry.file_type[1] \in IA.env.typeIcons
UsedExtension ==
    IF IA.entry.path_is_symlink /\ IA.link_target # None
    THEN PathExtension(IA.link_target[1])
    ELSE PathExtension(IA.entry.file_name)
ExtLookupMatches == UsedExtension # None /\ UsedExtension[1] \in IA.env.extIcons
NameLookupMatches == IA.entry.file_name \in IA.env.nameIcons

\* C2: compute_icon always returns an icon, chosen by first match: the
\* file-type icon, else the extension icon, else the file-name icon, else the
\* default icon.
C2_IconPrecedence ==
    iconRes # None =>
        /\ IR # None
        /\ (TypeLookupMatches => IR[1].txt = <<"type", IA.entry.file_type[1]>>)
        /\ (~TypeLookupMatches /\ ExtLookupMatches => IR[1].txt[1] = "ext")
        /\ (~TypeLookupMatches /\ ~ExtLookupMatches /\ NameLookupMatches
              => IR[1].txt = <<"name", IA.entry.file_name>>)
        /\ (IR[1].txt = <<"default">>
              <=> ~TypeLookupMatches /\ ~ExtLookupMatches /\ ~NameLookupMatches)

\* the extension and the name lookups match, and the extension icon is chosen
C2_Witness ==
    /\ iconRes # None
    /\ ~TypeLookupMatches /\ ExtLookupMatches /\ NameLookupMatches
    /\ IR[1].txt[1] = "ext"

\* C3: a long-format display of a Node whose permission bits cannot be decoded
\* still produces its line; the decode failure affects neither construction
\* nor a display that is not in long format.
C3_DisplayReportsDecodeFailure ==
    /\ (result # "none" /\ IO.metadata_ok => result = "ok")
    /\ (last.op = "display" /\ mode(N) = None => last.ret # None)

\* C4 as stated: right after construction the size is Some exactly when the
\* entry is a regular file and size suppression is off, in either disk-usage
\* mode and for every unit and scale.
C4_SizeIffFileAndNotSuppressed ==
    Constructed /\ ~sized =>
        (N.file_size # None
           <=> N.dir_entry.file_type = Some("file") /\ ~CTX.suppress_size)

\* C4 as amended: right after construction the size is Some exactly when the
\* entry is a regular file, size suppression is off and, in physical mode, the
\* physical size is available.
C4_SizeIffFileNotSuppressedAvailable ==
    Constructed /\ ~sized =>
        (N.file_size # None
           <=> /\ N.dir_entry.file_type = Some("file")
               /\ ~CTX.suppress_size
               /\ (CTX.disk_usage = "logical" \/ IO.physical = "some"))

\* a regular file in physical mode whose physical size is available
C4_Witness ==
    /\ Constructed /\ ~sized
    /\ N.dir_entry.file_type = Some("file") /\ ~CTX.suppress_size
    /\ CTX.disk_usage = "physical" /\ IO.physical = "some"
    /\ CTX.unit = "si" /\ CTX.scale = 0
    /\ N.file_size = Some(FileSize("physical", "si", 0))

OtherFields(n) == [n EXCEPT !.file_size = None]

C6_IconPlainWhenColourSuppressed ==
    iconRes # None /\ (IA.no_color \/ ~IA.env.tty) => IsPlain(IR[1])

DisplayedSameContext ==
    /\ Constructed
    /\ last.op = "display" /\ last.ret # None
    /\ last.arg.dc.no_color = CTX.no_color
    /\ last.arg.dc.long = CTX.long

\* C7: with colour disabled, a Node displayed under the context it was built
\* with has an uncoloured permission block, icon and name, and the name of a
\* symbolic link is its own file name without the arrow and the target.
C7_NoColourLineIsRaw ==
    DisplayedSameContext /\ CTX.no_color =>
        /\ AllPlain(last.ret[1].mode)
        /\ AllPlain(last.ret[1].icon)
        /\ last.ret[1].file_name = <<Plain(ToStringLossy(N.dir_entry.file_name))>>

\* a link to a named target, with a style, an icon and the long format
C7_Witness ==
    /\ DisplayedSameContext /\ CTX.no_color /\ CTX.long /\ CTX.icons
    /\ symlink_target_file_name(N) # None
    /\ HasForeground(N.style)
    /\ last.ret[1].icon # <<>>
    /\ last.ret[1].mode # <<>>

C9_ExtensionOfTarget ==
    iconRes # None /\ ~TypeLookupMatches =>
        /\ (ExtLookupMatches => IR[1].txt = <<"ext", UsedExtension[1]>>)
        /\ (IR[1].txt[1] = "ext" => ExtLookupMatches)

\* a link without an extension to a target ending in .rs, without colour
C9_Witness ==
    /\ iconRes # None /\ ~TypeLookupMatches
    /\ IA.entry.path_is_symlink
    /\ PathExtension(IA.entry.file_name) = None
    /\ IA.link_target = Some("t.rs")
    /\ IA.no_color
    /\ IR = Some(Plain(<<"ext", "rs">>))

LongLine == Constructed /\ last.op = "display" /\ last.arg.dc.long /\ last.ret # None
Marker == IF N.xattrs # None /\ N.xattrs[1] > 0 THEN "@" ELSE " "
ModeBlock == last.ret[1].mode

\* C10 as stated: in long format, with colour on or off, the permission string
\* is followed by the marker, emitted as is.
C10_MarkerEmittedAsIs ==
    LongLine =>
        /\ Len(ModeBlock) > 0
        /\ ModeBlock[Len(ModeBlock)] = Plain(<<Marker>>)

\* C10 as amended: with colour off the permission string is followed by the
\* marker as is; with colour on the marker goes through the permission theme
\* with the rest of the string: painted if the theme has it, dropped if not.
C10_MarkerThroughTheme ==
    LongLine =>
        IF last.arg.dc.no_color
        THEN /\ Len(ModeBlock) = Len(mode(N)[1]) + 1
             /\ ModeBlock[Len(ModeBlock)] = Plain(<<Marker>>)
        ELSE IF Marker \in last.arg.theme[1]
        THEN /\ Len(ModeBlock) > 0
             /\ ModeBlock[Len(ModeBlock)] = Paint(<<"theme", Marker>>, <<Marker>>)
        ELSE \A i \in 1..Len(ModeBlock) : ModeBlock[i].txt # <<Marker>>

\* a coloured long line of a Node with extended attributes, the marker painted
C10_Witness ==
    /\ LongLine /\ ~last.arg.dc.no_color
    /\ Marker = "@" /\ "@" \in last.arg.theme[1]
    /\ ModeBlock[Len(ModeBlock)] = Paint(<<"theme", "@">>, <<"@">>)

====
